---- MODULE Spec2Model ----
(***************************************************************************)
(* Model of run-scaler (scale.go): Scale, NewHandler and NewEndpoint.      *)
(*                                                                         *)
(* Scale is a linear read-modify-write against the Cloud Run admin API:    *)
(* DefaultClient, ProjectID, GET, decode, compare, mutate, PUT.  Every     *)
(* call of Scale is an invocation run by one of the processes of Procs;    *)
(* the steps of different invocations interleave.  The provider (the      *)
(* remote service description and the way it answers GET and PUT) and the  *)
(* network are the environment of the code and are modelled with it.       *)
(***************************************************************************)
EXTENDS Integers, Sequences, FiniteSets, TLC

(***************************************************************************)
(* Bounds of the model.                                                    *)
(***************************************************************************)
\* Total number of invocations of Scale in one behaviour.
MaxCalls == 2

\* The processes that can run an invocation each (overlapping triggers).
\* They are interchangeable, so the first invocation is always First's.
Procs == {"p1", "p2"}
First == "p1"

\* The (min, max) pairs callers request.
ReqPairs == {<<1, 10>>, <<0, 1>>}

\* The three ways Scale is entered: called directly, through the closure of
\* NewHandler, through the closure of NewEndpoint.
Entries == {"scale", "handler", "endpoint"}

(***************************************************************************)
(* Program constants.                                                      *)
(***************************************************************************)
MinScaleKey == "autoscaling.knative.dev/minScale"
MaxScaleKey == "autoscaling.knative.dev/maxScale"
LaunchStageKey == "run.googleapis.com/launch-stage"
IngressKey == "run.googleapis.com/ingress"
StatusOK == 200
StatusInternalServerError == 500
\* Statuses the provider answers besides 200.
StatusForbidden == 403
StatusNotFound == 404

(***************************************************************************)
(* strconv.Itoa: the decimal string of an integer.                         *)
(***************************************************************************)
Digit(d) ==
    CASE d = 0 -> "0" [] d = 1 -> "1" [] d = 2 -> "2" [] d = 3 -> "3"
      [] d = 4 -> "4" [] d = 5 -> "5" [] d = 6 -> "6" [] d = 7 -> "7"
      [] d = 8 -> "8" [] d = 9 -> "9"

RECURSIVE Itoa(_)
Itoa(n) ==
    IF n < 0 THEN "-" \o Itoa(-n)
    ELSE IF n < 10 THEN Digit(n)
    ELSE Itoa(n \div 10) \o Digit(n % 10)

(***************************************************************************)
(* Go values.  A map[string]string is [nil, kv]: kv is a function from     *)
(* the keys present to their values.  Reading a key of a nil or non-nil    *)
(* map that lacks it yields "", writing to a nil map panics.  run.Service  *)
(* is reduced to the fields Scale touches: Metadata (a pointer) with its   *)
(* Annotations, and Spec.Template.Metadata (a chain of pointers, nil if    *)
(* any link is nil) with its Name and Annotations.                         *)
(***************************************************************************)
EmptyKV == [k \in {} |-> ""]
NilMap == [nil |-> TRUE, kv |-> EmptyKV]
MakeMap(kv) == [nil |-> FALSE, kv |-> kv]
MapGet(m, k) == IF k \in DOMAIN m.kv THEN m.kv[k] ELSE ""
MapSet(m, k, v) ==
    [m EXCEPT !.kv = [x \in (DOMAIN m.kv) \cup {k} |-> IF x = k THEN v ELSE m.kv[x]]]

NilMeta == [nil |-> TRUE, name |-> "", ann |-> NilMap]
MakeMeta(name, ann) == [nil |-> FALSE, name |-> name, ann |-> ann]
MakeService(meta, tmeta) == [meta |-> meta, tmeta |-> tmeta]
\* The zero value of run.Service (var svc run.Service).
ZeroService == MakeService(NilMeta, NilMeta)

(***************************************************************************)
(* JSON documents.  A service document omits nil pointers, empty maps and  *)
(* empty strings (omitempty); a response body can also be a JSON object    *)
(* that is no service (the provider's error object) or no JSON at all.     *)
(***************************************************************************)
NoDoc == [kind |-> "none"]
GarbageDoc == [kind |-> "garbage"]
ErrorDoc == [kind |-> "error"]

MarshalMap(m) == [present |-> (~m.nil /\ DOMAIN m.kv # {}), kv |-> m.kv]
MarshalMeta(o) ==
    [present |-> ~o.nil, name |-> o.name, annotations |-> MarshalMap(o.ann)]
\* json.Marshal(svc)
Marshal(s) ==
    [kind |-> "service", metadata |-> MarshalMeta(s.meta), template |-> MarshalMeta(s.tmeta)]

DecodeMap(j) == IF j.present THEN MakeMap(j.kv) ELSE NilMap
DecodeMeta(j) ==
    IF j.present THEN MakeMeta(j.name, DecodeMap(j.annotations)) ELSE NilMeta
\* json.NewDecoder(body).Decode(&svc): fails on a body that is no JSON; a JSON
\* object without the service's fields leaves svc at its zero value.
DecodeFails(doc) == doc.kind \notin {"service", "error"}
Decode(doc) ==
    IF doc.kind = "service"
    THEN MakeService(DecodeMeta(doc.metadata), DecodeMeta(doc.template))
    ELSE ZeroService

(***************************************************************************)
(* Results of Scale: nil, an error value, or a panic (a run-time error of  *)
(* a nil dereference or a write to a nil map).                             *)
(***************************************************************************)
NoResult == [kind |-> "none", cause |-> "", code |-> 0]
Ok == [kind |-> "ok", cause |-> "", code |-> 0]
Err(cause) == [kind |-> "error", cause |-> cause, code |-> 0]
Panic == [kind |-> "panic", cause |-> "", code |-> 0]
\* fmt.Errorf("cloud Run API response code: %d", updateResp.StatusCode)
StatusErr(code) == [kind |-> "error", cause |-> "status", code |-> code]

(***************************************************************************)
(* The pure steps of Scale.                                                *)
(***************************************************************************)
\* Line 60 dereferences svc.Spec.Template.Metadata.
ComparePanics(s) == s.tmeta.nil

\* The comparison on parsed integers instead: leading zeros are ignored.
IsNoopIntCompare(s, min, max) ==
    /\ MapGet(s.tmeta.ann, MinScaleKey) \in {Itoa(min), "0" \o Itoa(min)}
    /\ MapGet(s.tmeta.ann, MaxScaleKey) \in {Itoa(max), "0" \o Itoa(max)}

IsNoopNever(s, min, max) == FALSE

\* The no-op test: both annotations equal the decimal strings, as strings.
IsNoop(s, min, max) ==
    /\ MapGet(s.tmeta.ann, MinScaleKey) = Itoa(min)
    /\ MapGet(s.tmeta.ann, MaxScaleKey) = Itoa(max)

\* Lines 66-71 panic on a nil svc.Metadata, or a nil map written to.
MutatePanics(s) == s.meta.nil \/ s.meta.ann.nil \/ s.tmeta.ann.nil

MutateKeepName(s, min, max) ==
    MakeService(
        [s.meta EXCEPT !.ann = MapSet(@, LaunchStageKey, "BETA")],
        [s.tmeta EXCEPT !.ann = MapSet(MapSet(@, MinScaleKey, Itoa(min)), MaxScaleKey, Itoa(max))])

MutateMinOnly(s, min, max) ==
    MakeService(
        [s.meta EXCEPT !.ann = MapSet(@, LaunchStageKey, "BETA")],
        [s.tmeta EXCEPT !.name = "", !.ann = MapSet(@, MinScaleKey, Itoa(min))])

\* The mutation of the fetched description.
Mutate(s, min, max) ==
    MakeService(
        [s.meta EXCEPT !.ann = MapSet(@, LaunchStageKey, "BETA")],
        [s.tmeta EXCEPT !.name = "",
                        !.ann = MapSet(MapSet(@, MinScaleKey, Itoa(min)), MaxScaleKey, Itoa(max))])

PutResultNoCode(status) == IF status # StatusOK THEN Err("status") ELSE Ok

PutResultInverted(status) == IF status = StatusOK THEN StatusErr(status) ELSE Ok

\* What Scale returns for a PUT response with this status.
PutResult(status) == IF status # StatusOK THEN StatusErr(status) ELSE Ok

DeferredCloseGetOnly(open) == open \ {"get"}

\* The deferred Body.Close() calls that run when Scale returns or panics: a
\* defer is registered right after each response is obtained.
DeferredClose(open) == open \ {"get", "put"}

HandlerStatusAlwaysOK(res) == IF res.kind = "panic" THEN 0 ELSE StatusOK

\* The status the closure of NewHandler writes; none (0) if Scale panicked.
HandlerStatus(res) ==
    IF res.kind = "panic" THEN 0
    ELSE IF res.kind = "error" THEN StatusInternalServerError
    ELSE StatusOK

\* What the closure of NewEndpoint returns: (nil, Scale's error).
EndpointReturn(res) == [response |-> "nil", err |-> res]

\* The adapter's output once Scale has ended.
NoOutput == [status |-> 0, response |-> "none", err |-> NoResult]
AdapterOutput(e, res) ==
    CASE e = "handler" -> [NoOutput EXCEPT !.status = HandlerStatus(res)]
      [] e = "endpoint" /\ res.kind # "panic" ->
            [NoOutput EXCEPT !.response = EndpointReturn(res).response,
                             !.err = EndpointReturn(res).err]
      [] OTHER -> NoOutput

(***************************************************************************)
(* The provider.                                                           *)
(***************************************************************************)
TopAnn == MakeMap([k \in {IngressKey} |-> "all"])
Template(kv) == MakeMeta("rev-0", MakeMap(kv))
\* Service descriptions the service can have before the first invocation:
\* the annotations set, minScale with a leading zero, minScale missing, and
\* a template without annotations (a nil map once decoded).
InitServices ==
    { MakeService(MakeMeta("svc", TopAnn),
                  Template([k \in {MinScaleKey, MaxScaleKey} |-> IF k = MinScaleKey THEN "1" ELSE "10"])),
      MakeService(MakeMeta("svc", TopAnn),
                  Template([k \in {MinScaleKey, MaxScaleKey} |-> IF k = MinScaleKey THEN "01" ELSE "10"])),
      MakeService(MakeMeta("svc", TopAnn),
                  Template([k \in {MaxScaleKey} |-> "10"])),
      MakeService(MakeMeta("svc", TopAnn), Template(EmptyKV)) }

\* The answers of the provider to a GET: the description, an error object
\* with a non-success status, or a non-JSON body of a failing front end.
GetResponses(r) ==
    { [status |-> StatusOK, body |-> Marshal(r)],
      [status |-> StatusNotFound, body |-> ErrorDoc],
      [status |-> StatusInternalServerError, body |-> GarbageDoc] }

\* The description the provider stores for an accepted PUT body: the body,
\* with a fresh revision name.
Stored(body, rev) ==
    LET s == Decode(body) IN [s EXCEPT !.tmeta.name = "rev-" \o Itoa(rev)]

\* The provider rejects a template that reuses a revision name.
Acceptable(body) == body.template.present /\ body.template.name = ""

\* The status of the provider's answer to a PUT it applied or rejected.
ProviderStatus(state) == IF state = "applied" THEN StatusOK ELSE StatusForbidden

VARIABLES
    remote,      \* the service description the provider holds
    revisions,   \* revisions the provider has created
    lastApplied, \* the requested pair of the PUT applied last, <<>> if none
    stable,      \* the pair of the last successful invocation not overwritten since
    calls,       \* invocations started
    pc,          \* where each process's invocation is
    entry,       \* how the invocation entered Scale
    reqMin, reqMax,
    cancelled,   \* the caller's context is cancelled
    cancelEarly, \* it was cancelled before the GET completed
    resp,        \* the GET response
    fetched,     \* the description as decoded
    svc,         \* the description being worked on
    putBody,     \* the body of the PUT
    putState,    \* "none", "sent", "applied", "rejected"
    putStatus,   \* the status of the PUT response Do returned, 0 if none
    result,      \* what Scale returned
    out,         \* what the adapter produced
    open,        \* response bodies obtained and not closed
    gets, puts,  \* requests sent by the invocation
    fresh,       \* the invocation follows a successful one with the same pair
    dirty        \* the remote was written since the invocation read it

envVars == <<remote, revisions, lastApplied, stable, calls>>
argVars == <<entry, reqMin, reqMax>>
ctxVars == <<cancelled, cancelEarly>>
getVars == <<resp, fetched, svc, gets>>
putVars == <<putBody, putState, putStatus, puts>>
endVars == <<result, out, open>>
histVars == <<fresh, dirty>>
vars == <<envVars, pc, argVars, ctxVars, getVars, putVars, endVars, histVars>>

Init ==
    /\ remote \in InitServices
    /\ revisions = 0
    /\ lastApplied = <<>>
    /\ stable = <<>>
    /\ calls = 0
    /\ pc = [i \in Procs |-> "idle"]
    /\ entry = [i \in Procs |-> "scale"]
    /\ reqMin = [i \in Procs |-> 0]
    /\ reqMax = [i \in Procs |-> 0]
    /\ cancelled = [i \in Procs |-> FALSE]
    /\ cancelEarly = [i \in Procs |-> FALSE]
    /\ resp = [i \in Procs |-> [status |-> 0, body |-> NoDoc]]
    /\ fetched = [i \in Procs |-> ZeroService]
    /\ svc = [i \in Procs |-> ZeroService]
    /\ putBody = [i \in Procs |-> NoDoc]
    /\ putState = [i \in Procs |-> "none"]
    /\ putStatus = [i \in Procs |-> 0]
    /\ result = [i \in Procs |-> NoResult]
    /\ out = [i \in Procs |-> NoOutput]
    /\ open = [i \in Procs |-> {}]
    /\ gets = [i \in Procs |-> 0]
    /\ puts = [i \in Procs |-> 0]
    /\ fresh = [i \in Procs |-> FALSE]
    /\ dirty = [i \in Procs |-> FALSE]

\* The context Scale runs under is done.  NewHandler passes
\* context.Background(), which is never done; the other entries pass the
\* caller's context.
CtxDone(i) == entry[i] # "handler" /\ cancelled[i]

\* Scale ends (returns or panics) with res: the deferred closes run and the
\* adapter maps the result.
Finish(i, res) ==
    /\ pc' = [pc EXCEPT ![i] = "done"]
    /\ result' = [result EXCEPT ![i] = res]
    /\ open' = [open EXCEPT ![i] = DeferredClose(@)]
    /\ out' = [out EXCEPT ![i] = AdapterOutput(entry[i], res)]
    /\ stable' = IF res.kind = "ok" /\ resp[i].status = StatusOK /\ ~dirty[i]
                 THEN <<reqMin[i], reqMax[i]>> ELSE stable

\* A caller invokes Scale(ctx, min, max), directly or through an adapter.
Invoke(i) ==
    /\ pc[i] \in {"idle", "done"}
    /\ calls < MaxCalls
    /\ i # First => pc[First] # "idle"
    /\ \E e \in Entries, pr \in ReqPairs :
        /\ entry' = [entry EXCEPT ![i] = e]
        /\ reqMin' = [reqMin EXCEPT ![i] = pr[1]]
        /\ reqMax' = [reqMax EXCEPT ![i] = pr[2]]
        /\ fresh' = [fresh EXCEPT ![i] = (stable = pr)]
    /\ calls' = calls + 1
    /\ pc' = [pc EXCEPT ![i] = "cred"]
    /\ cancelled' = [cancelled EXCEPT ![i] = FALSE]
    /\ cancelEarly' = [cancelEarly EXCEPT ![i] = FALSE]
    /\ resp' = [resp EXCEPT ![i] = [status |-> 0, body |-> NoDoc]]
    /\ fetched' = [fetched EXCEPT ![i] = ZeroService]
    /\ svc' = [svc EXCEPT ![i] = ZeroService]
    /\ gets' = [gets EXCEPT ![i] = 0]
    /\ putBody' = [putBody EXCEPT ![i] = NoDoc]
    /\ putState' = [putState EXCEPT ![i] = "none"]
    /\ putStatus' = [putStatus EXCEPT ![i] = 0]
    /\ puts' = [puts EXCEPT ![i] = 0]
    /\ result' = [result EXCEPT ![i] = NoResult]
    /\ out' = [out EXCEPT ![i] = NoOutput]
    /\ open' = [open EXCEPT ![i] = {}]
    /\ dirty' = [dirty EXCEPT ![i] = FALSE]
    /\ UNCHANGED <<remote, revisions, lastApplied, stable>>

\* The caller's context is cancelled or times out while the call runs.
CallerCancel(i) ==
    /\ pc[i] \notin {"idle", "done"}
    /\ ~cancelled[i]
    /\ cancelled' = [cancelled EXCEPT ![i] = TRUE]
    /\ cancelEarly' = [cancelEarly EXCEPT ![i] = (pc[i] \in {"cred", "project", "get", "getwait"})]
    /\ UNCHANGED <<envVars, pc, argVars, getVars, putVars, endVars, histVars>>

\* google.DefaultClient(ctx, scope)
AcquireClient(i) ==
    /\ pc[i] = "cred"
    /\ \/ /\ pc' = [pc EXCEPT ![i] = "project"]
          /\ UNCHANGED <<endVars, stable>>
       \/ Finish(i, Err("credential"))
    /\ UNCHANGED <<remote, revisions, lastApplied, calls, argVars, ctxVars, getVars, putVars, histVars>>

\* metadata.ProjectID()
ResolveProject(i) ==
    /\ pc[i] = "project"
    /\ \/ /\ pc' = [pc EXCEPT ![i] = "get"]
          /\ UNCHANGED <<endVars, stable>>
       \/ Finish(i, Err("identity"))
    /\ UNCHANGED <<remote, revisions, lastApplied, calls, argVars, ctxVars, getVars, putVars, histVars>>

\* The GET request is built and httpClient.Do is called.  A URL that does
\* not parse fails the construction; a context that is already done makes
\* Do fail before anything is sent.
SendGet(i) ==
    /\ pc[i] = "get"
    /\ \/ /\ Finish(i, Err("request"))
          /\ UNCHANGED gets
       \/ /\ CtxDone(i)
          /\ Finish(i, Err("transport"))
          /\ UNCHANGED gets
       \/ /\ ~CtxDone(i)
          /\ gets' = [gets EXCEPT ![i] = @ + 1]
          /\ pc' = [pc EXCEPT ![i] = "getwait"]
          /\ UNCHANGED <<endVars, stable>>
    /\ UNCHANGED <<remote, revisions, lastApplied, calls, argVars, ctxVars,
                   resp, fetched, svc, putVars, histVars>>

\* The provider answers the GET and Do returns the response.
GetRespond(i) ==
    /\ pc[i] = "getwait"
    /\ ~CtxDone(i)
    /\ \E r \in GetResponses(remote) : resp' = [resp EXCEPT ![i] = r]
    /\ open' = [open EXCEPT ![i] = @ \cup {"get"}]
    /\ dirty' = [dirty EXCEPT ![i] = FALSE]
    /\ pc' = [pc EXCEPT ![i] = "decode"]
    /\ UNCHANGED <<envVars, argVars, ctxVars, fetched, svc, gets, putVars, result, out, fresh>>

\* Do returns an error for the GET: the network failed or the context was
\* cancelled in flight.  No response, so no body to close.
GetFail(i) ==
    /\ pc[i] = "getwait"
    /\ Finish(i, Err("transport"))
    /\ UNCHANGED <<remote, revisions, lastApplied, calls, argVars, ctxVars, getVars, putVars, histVars>>

\* Lines 51-71: decode the body, compare, mutate.  Reading the body under a
\* context that is done may fail or may be served from what has arrived.
DecodeCompareMutate(i) ==
    /\ pc[i] = "decode"
    /\ LET s == Decode(resp[i].body) IN
        \/ /\ DecodeFails(resp[i].body) \/ CtxDone(i)
           /\ Finish(i, Err("decode"))
           /\ UNCHANGED <<fetched, svc>>
        \/ /\ ~DecodeFails(resp[i].body)
           /\ fetched' = [fetched EXCEPT ![i] = s]
           /\ IF ComparePanics(s) THEN
                 /\ Finish(i, Panic)
                 /\ UNCHANGED svc
              ELSE IF IsNoop(s, reqMin[i], reqMax[i]) THEN
                 /\ Finish(i, Ok)
                 /\ UNCHANGED svc
              ELSE IF MutatePanics(s) THEN
                 /\ Finish(i, Panic)
                 /\ UNCHANGED svc
              ELSE
                 /\ svc' = [svc EXCEPT ![i] = Mutate(s, reqMin[i], reqMax[i])]
                 /\ pc' = [pc EXCEPT ![i] = "put"]
                 /\ UNCHANGED <<endVars, stable>>
    /\ UNCHANGED <<remote, revisions, lastApplied, calls, argVars, ctxVars,
                   resp, gets, putVars, histVars>>

\* Lines 73-81: marshal, build the PUT request (same URL and context as the
\* GET, so the construction succeeds), call Do.  A context that is done
\* makes Do fail before anything is sent.
SendPut(i) ==
    /\ pc[i] = "put"
    /\ \/ /\ CtxDone(i)
          /\ Finish(i, Err("transport"))
          /\ UNCHANGED putVars
       \/ /\ ~CtxDone(i)
          /\ putBody' = [putBody EXCEPT ![i] = Marshal(svc[i])]
          /\ putState' = [putState EXCEPT ![i] = "sent"]
          /\ puts' = [puts EXCEPT ![i] = @ + 1]
          /\ pc' = [pc EXCEPT ![i] = "putwait"]
          /\ UNCHANGED <<putStatus, endVars, stable>>
    /\ UNCHANGED <<remote, revisions, lastApplied, calls, argVars, ctxVars, getVars, histVars>>

\* The provider receives the PUT: it stores the body as a new revision and
\* answers 200, or rejects it and leaves the description as it is.
ProviderPut(i) ==
    /\ pc[i] = "putwait"
    /\ putState[i] = "sent"
    /\ \/ /\ Acceptable(putBody[i])
          /\ remote' = Stored(putBody[i], revisions + 1)
          /\ revisions' = revisions + 1
          /\ lastApplied' = <<i, reqMin[i], reqMax[i]>>
          /\ stable' = <<>>
          /\ putState' = [putState EXCEPT ![i] = "applied"]
          /\ fresh' = [j \in Procs |-> FALSE]
          /\ dirty' = [j \in Procs |-> j # i]
       \/ /\ putState' = [putState EXCEPT ![i] = "rejected"]
          /\ UNCHANGED <<remote, revisions, lastApplied, stable, histVars>>
    /\ UNCHANGED <<calls, pc, argVars, ctxVars, getVars, putBody, putStatus, puts, endVars>>

\* Do returns the PUT response; lines 85-90 check its status.
PutRespond(i) ==
    /\ pc[i] = "putwait"
    /\ putState[i] \in {"applied", "rejected"}
    /\ ~CtxDone(i)
    /\ LET status == ProviderStatus(putState[i]) IN
        /\ putStatus' = [putStatus EXCEPT ![i] = status]
        /\ pc' = [pc EXCEPT ![i] = "done"]
        /\ result' = [result EXCEPT ![i] = PutResult(status)]
        /\ open' = [open EXCEPT ![i] = DeferredClose(@ \cup {"put"})]
        /\ out' = [out EXCEPT ![i] = AdapterOutput(entry[i], PutResult(status))]
        /\ stable' = IF PutResult(status).kind = "ok" /\ resp[i].status = StatusOK /\ ~dirty[i]
                     THEN <<reqMin[i], reqMax[i]>> ELSE stable
    /\ UNCHANGED <<remote, revisions, lastApplied, calls, argVars, ctxVars, getVars,
                   putBody, putState, puts, histVars>>

\* Do returns an error for the PUT: the request or its response was lost,
\* or the context was cancelled in flight.  The provider may or may not have
\* handled the request by then.
PutFail(i) ==
    /\ pc[i] = "putwait"
    /\ Finish(i, Err("transport"))
    /\ UNCHANGED <<remote, revisions, lastApplied, calls, argVars, ctxVars, getVars, putVars, histVars>>

Next ==
    \E i \in Procs :
        \/ Invoke(i)
        \/ CallerCancel(i)
        \/ AcquireClient(i)
        \/ ResolveProject(i)
        \/ SendGet(i)
        \/ GetRespond(i)
        \/ GetFail(i)
        \/ DecodeCompareMutate(i)
        \/ SendPut(i)
        \/ ProviderPut(i)
        \/ PutRespond(i)
        \/ PutFail(i)

Spec == Init /\ [][Next]_vars

(***************************************************************************)
(* The claims.                                                             *)
(***************************************************************************)
Ended(i) == pc[i] = "done"

\* Scale decoded the GET response of invocation i into a description.
Decoded(i) ==
    /\ resp[i].status # 0
    /\ pc[i] # "decode"
    /\ result[i] # Err("decode")

\* The annotations as fetched equal the decimal strings of the request.
SameAsRequested(i) ==
    /\ MapGet(fetched[i].tmeta.ann, MinScaleKey) = Itoa(reqMin[i])
    /\ MapGet(fetched[i].tmeta.ann, MaxScaleKey) = Itoa(reqMax[i])

\* C1: for every fetched description whose minScale and maxScale are exactly
\* the decimal strings of the request, Scale returns success having sent the
\* GET and no PUT; a description that differs as a string (a leading zero, a
\* missing annotation) is not a no-op: Scale does not return success without
\* a PUT.
C1_NoOp ==
    \A i \in Procs :
        Decoded(i) /\ ~ComparePanics(fetched[i]) =>
            /\ SameAsRequested(i) =>
                  Ended(i) /\ result[i] = Ok /\ puts[i] = 0 /\ gets[i] = 1
            /\ ~SameAsRequested(i) =>
                  ~(Ended(i) /\ result[i] = Ok /\ puts[i] = 0)

\* One invocation found "01" against a requested 1 and sent a PUT; another
\* found the strings equal and returned success without one.
C1_Witness ==
    \E i, j \in Procs :
        /\ Decoded(i) /\ reqMin[i] = 1
        /\ MapGet(fetched[i].tmeta.ann, MinScaleKey) = "01"
        /\ puts[i] = 1
        /\ Ended(j) /\ Decoded(j) /\ SameAsRequested(j)
        /\ result[j] = Ok /\ puts[j] = 0 /\ gets[j] = 1

\* C2: a PUT is sent only when a fetched annotation differs from the string
\* of the request, and its body has the launch-stage annotation "BETA", an
\* empty template name, and minScale and maxScale equal to the decimal
\* strings of the requested min and max.
C2_MutationCorrect ==
    \A i \in Procs :
        puts[i] > 0 =>
            /\ ~SameAsRequested(i)
            /\ putBody[i].kind = "service"
            /\ putBody[i].metadata.present /\ putBody[i].metadata.annotations.present
            /\ MapGet(putBody[i].metadata.annotations, LaunchStageKey) = "BETA"
            /\ putBody[i].template.present /\ putBody[i].template.annotations.present
            /\ putBody[i].template.name = ""
            /\ MapGet(putBody[i].template.annotations, MinScaleKey) = Itoa(reqMin[i])
            /\ MapGet(putBody[i].template.annotations, MaxScaleKey) = Itoa(reqMax[i])

\* A PUT was sent for a description whose revision had a name.
C2_Witness ==
    \E i \in Procs :
        /\ puts[i] = 1
        /\ fetched[i].tmeta.name # ""
        /\ ~SameAsRequested(i)
        /\ putState[i] = "applied"

\* C3: a PUT response with a status other than 200 makes Scale return an
\* error that carries that status, and an invocation sends at most one PUT.
C3_StatusPropagation ==
    \A i \in Procs :
        /\ puts[i] <= 1
        /\ Ended(i) /\ putStatus[i] \notin {0, StatusOK} =>
              /\ result[i].kind = "error"
              /\ result[i].code = putStatus[i]

\* The PUT was answered 403 and Scale returned the error carrying 403.
C3_Witness ==
    \E i \in Procs :
        /\ Ended(i) /\ puts[i] = 1
        /\ putStatus[i] = StatusForbidden
        /\ result[i] = StatusErr(StatusForbidden)

\* C4: if the GET fails in transport, is answered with a non-success status,
\* or has a body that cannot be decoded, Scale returns an error and sends no
\* PUT.
C4_FetchFailure ==
    \A i \in Procs :
        Ended(i) /\ gets[i] = 1
          /\ (resp[i].status # StatusOK \/ DecodeFails(resp[i].body)) =>
            result[i].kind = "error" /\ puts[i] = 0

\* C5 as claimed: whenever Scale returns an error, the provider has not
\* applied a PUT of that invocation.
C5_AllOrNothing ==
    \A i \in Procs :
        Ended(i) /\ result[i].kind = "error" => putState[i] # "applied"

\* C5 as amended: whenever Scale returns an error other than the transport
\* error of a PUT it has sent, the provider has not applied a PUT of that
\* invocation: a failure before the PUT sends none, and a non-200 status is
\* the answer of a provider that rejected the PUT.
C5_NoChangeUnlessPutLost ==
    \A i \in Procs :
        Ended(i) /\ result[i].kind = "error"
          /\ ~(puts[i] = 1 /\ result[i] = Err("transport")) =>
            putState[i] # "applied"

\* Errors of both kinds: one invocation failed before its PUT, another had
\* its PUT rejected, and the description is the one of before.
C5_Witness ==
    \E i, j \in Procs :
        /\ Ended(i) /\ result[i].kind = "error" /\ puts[i] = 0
        /\ Ended(j) /\ result[j] = StatusErr(StatusForbidden) /\ putState[j] = "rejected"
        /\ remote \in InitServices

\* C6: if the caller's context is cancelled before the GET completes, the
\* request is aborted (Do returns no response), the invocation sends no PUT
\* and Scale returns an error, through every entry.
C6_Cancellation ==
    \A i \in Procs :
        cancelEarly[i] =>
            /\ resp[i].status = 0
            /\ puts[i] = 0
            /\ Ended(i) => result[i].kind = "error"

\* C7: the handler of NewHandler writes 200 exactly when Scale returned
\* success and 500 exactly when Scale returned an error; the endpoint of
\* NewEndpoint returns a nil result with the error value Scale returned.
C7_AdapterMapping ==
    \A i \in Procs :
        Ended(i) =>
            /\ entry[i] = "handler" =>
                  /\ out[i].status = StatusOK <=> result[i].kind = "ok"
                  /\ out[i].status = StatusInternalServerError <=> result[i].kind = "error"
            /\ entry[i] = "endpoint" /\ result[i].kind # "panic" =>
                  out[i].response = "nil" /\ out[i].err = result[i]

\* One handler answered 200 on the no-op path, another 200 on the mutation
\* path or 500 on an error.
C7_Witness ==
    \E i, j \in Procs :
        /\ i # j /\ entry[i] = "handler" /\ entry[j] = "handler"
        /\ Ended(i) /\ result[i] = Ok /\ puts[i] = 1 /\ out[i].status = StatusOK
        /\ Ended(j) /\ result[j] = Ok /\ puts[j] = 0 /\ out[j].status = StatusOK

\* C8: when an invocation has ended, every response body it obtained from
\* the GET or the PUT has been closed.
C8_ResourceRelease ==
    \A i \in Procs : Ended(i) => open[i] = {}

\* An invocation obtained both responses and ended.
C8_Witness ==
    \E i \in Procs :
        Ended(i) /\ resp[i].status # 0 /\ putStatus[i] # 0 /\ open[i] = {}

\* C9: once the invocations have returned and a PUT was accepted, the remote
\* minScale and maxScale are the requested pair of the invocation whose PUT
\* was applied last, never a mixture of two requests.
C9_LastWriteWins ==
    (\A i \in Procs : pc[i] \in {"idle", "done"}) /\ lastApplied # <<>> =>
        /\ MapGet(remote.tmeta.ann, MinScaleKey) = Itoa(lastApplied[2])
        /\ MapGet(remote.tmeta.ann, MaxScaleKey) = Itoa(lastApplied[3])

\* Two invocations with different pairs read the same description, both
\* PUTs were applied, and both have returned.
C9_Witness ==
    \E i, j \in Procs :
        /\ i # j /\ Ended(i) /\ Ended(j)
        /\ reqMin[i] # reqMin[j] /\ reqMax[i] # reqMax[j]
        /\ resp[i].status = StatusOK /\ fetched[i] = fetched[j]
        /\ putState[i] = "applied" /\ putState[j] = "applied"
        /\ lastApplied[1] = j

\* C10: an invocation that follows a successful Scale(min, max) with the
\* same arguments, with no write to the description in between, sends no
\* PUT, and having fetched the description it returns success after its one
\* GET.
C10_RepeatIdempotent ==
    \A j \in Procs :
        fresh[j] =>
            /\ puts[j] = 0
            /\ MapGet(remote.tmeta.ann, MinScaleKey) = Itoa(reqMin[j])
            /\ MapGet(remote.tmeta.ann, MaxScaleKey) = Itoa(reqMax[j])
            /\ Ended(j) /\ Decoded(j) /\ resp[j].status = StatusOK =>
                  result[j] = Ok /\ gets[j] = 1

\* The first call created a revision; the repeated call returned success
\* after a GET and created none.
C10_Witness ==
    \E j \in Procs :
        /\ fresh[j] /\ Ended(j) /\ result[j] = Ok
        /\ gets[j] = 1 /\ puts[j] = 0
        /\ revisions = 1

====
